---- MODULE Spec2Model ----
(***************************************************************************)
(* Model of the ticket-purchase engine of BuyTicketsModal.tsx: the         *)
(* purchase-quantity validator, the discount pricing effect and the        *)
(* approve/confirm transaction flow that gates buyTickets.                 *)
(***************************************************************************)
EXTENDS Integers, Sequences, FiniteSets, TLC

(***************************************************************************)
(* Bounds of the model.                                                    *)
(***************************************************************************)
MaxBalance == 3
MaxPrice == 2
MaxCap == 2
MaxDivisor == 1
\* raw quantities typed by the user range over -MaxInputExcess .. cap + MaxInputExcess
MaxInputExcess == 2
MaxTicketNumber == 2
\* ranges of the pricing specification
MaxPricingTickets == 5
MaxPricingPrice == 3
MaxPricingDivisor == 3
\* Amounts of the token are counted in units of 10^(18 - TokenDecimals) wei,
\* so that 10^decimals stays inside TLC's integers: the display conversion
\* divides by 10^TokenDecimals where the program divides wei by 10^18.
TokenDecimals == 5
\* prices of the bulk-discount table, in units
MaxTablePrice == 5
\* decimals kept by the discount display
DiscountDecimals == 5

Balances == 0..MaxBalance
Prices == 0..MaxPrice
Caps == 0..MaxCap
Divisors == 0..MaxDivisor
TicketNumbers == 1..MaxTicketNumber
Percentages == {10, 25, 50, 100}

(***************************************************************************)
(* bignumber.js values: finite rationals n/d (kept in lowest terms),       *)
(* +Infinity / -Infinity and NaN.                                          *)
(***************************************************************************)
Abs(i) == IF i < 0 THEN -i ELSE i

Sgn(i) == IF i < 0 THEN -1 ELSE IF i > 0 THEN 1 ELSE 0

Min(a, b) == IF a < b THEN a ELSE b

RECURSIVE GCD(_, _)
GCD(a, b) == IF b = 0 THEN a ELSE GCD(b, a % b)

RECURSIVE Pow10(_)
Pow10(k) == IF k = 0 THEN 1 ELSE 10 * Pow10(k - 1)

BNNaN == [k |-> "nan", n |-> 0, d |-> 1]

BNInf(s) == [k |-> "inf", n |-> s, d |-> 1]

BNFrac(n, d) ==
  LET g == GCD(Abs(n), Abs(d))
      s == IF d < 0 THEN -1 ELSE 1
  IN [k |-> "fin", n |-> s * (n \div g), d |-> s * (d \div g)]

BNInt(i) == [k |-> "fin", n |-> i, d |-> 1]

BIG_ZERO == BNInt(0)

BNSign(a) == Sgn(a.n)

BNIsNaN(a) == a.k = "nan"

BNTimes(a, b) ==
  IF a.k = "nan" \/ b.k = "nan" THEN BNNaN
  ELSE IF a.k = "inf" \/ b.k = "inf"
       THEN IF BNSign(a) * BNSign(b) = 0 THEN BNNaN ELSE BNInf(BNSign(a) * BNSign(b))
       ELSE BNFrac(a.n * b.n, a.d * b.d)

BNDiv(a, b) ==
  IF a.k = "nan" \/ b.k = "nan" THEN BNNaN
  ELSE IF a.k = "inf"
       THEN IF b.k = "inf" THEN BNNaN
            ELSE BNInf(IF BNSign(b) < 0 THEN -BNSign(a) ELSE BNSign(a))
       ELSE IF b.k = "inf" THEN BIG_ZERO
            ELSE IF b.n = 0
                 THEN IF a.n = 0 THEN BNNaN ELSE BNInf(BNSign(a))
                 ELSE BNFrac(a.n * b.d, a.d * b.n)

BNPlus(a, b) ==
  IF a.k = "nan" \/ b.k = "nan" THEN BNNaN
  ELSE IF a.k = "inf"
       THEN IF b.k = "inf" /\ b.n # a.n THEN BNNaN ELSE a
       ELSE IF b.k = "inf" THEN b
            ELSE BNFrac(a.n * b.d + b.n * a.d, a.d * b.d)

BNNeg(a) == [a EXCEPT !.n = -a.n]

BNMinus(a, b) == BNPlus(a, BNNeg(b))

\* every comparison with NaN is false
BNGt(a, b) ==
  IF a.k = "nan" \/ b.k = "nan" THEN FALSE
  ELSE IF a.k = "inf" THEN a.n = 1 /\ ~(b.k = "inf" /\ b.n = 1)
       ELSE IF b.k = "inf" THEN b.n = -1
            ELSE a.n * b.d > b.n * a.d

BNEq(a, b) ==
  IF a.k = "nan" \/ b.k = "nan" THEN FALSE
  ELSE a = b

BNLte(a, b) ==
  IF a.k = "nan" \/ b.k = "nan" THEN FALSE
  ELSE ~BNGt(a, b)

\* Math.floor(x.toNumber()) of a finite value
BNFloor(a) == a.n \div a.d

(***************************************************************************)
(* Strings are sequences of characters; parseInt(s, 10), the BigNumber     *)
(* string constructor and the integer toString / toFixed.                  *)
(***************************************************************************)
Digits == <<"0", "1", "2", "3", "4", "5", "6", "7", "8", "9">>

IsDigit(c) == \E i \in 1..10 : Digits[i] = c

DigitVal(c) == (CHOOSE i \in 1..10 : Digits[i] = c) - 1

RECURSIVE DigitPrefix(_)
DigitPrefix(s) ==
  IF s = <<>> \/ ~IsDigit(Head(s)) THEN <<>>
  ELSE <<Head(s)>> \o DigitPrefix(Tail(s))

RECURSIVE DigitsValue(_, _)
DigitsValue(s, acc) ==
  IF s = <<>> THEN acc ELSE DigitsValue(Tail(s), 10 * acc + DigitVal(Head(s)))

\* parseInt(s, 10): optional sign, then the longest prefix of digits;
\* NaN when there is none
NotANumber == [nan |-> TRUE, v |-> 0]

parseInt(s) ==
  LET neg == s # <<>> /\ Head(s) = "-"
      body == IF s # <<>> /\ Head(s) \in {"-", "+"} THEN Tail(s) ELSE s
      digs == DigitPrefix(body)
  IN IF digs = <<>> THEN NotANumber
     ELSE [nan |-> FALSE, v |-> IF neg THEN -DigitsValue(digs, 0) ELSE DigitsValue(digs, 0)]

\* new BigNumber(n) of a JS number
BNOfNumber(x) == IF x.nan THEN BNNaN ELSE BNInt(x.v)

\* new BigNumber(s) of a string: the whole string must be a signed integer
BNOfString(s) ==
  LET x == parseInt(s)
      body == IF s # <<>> /\ Head(s) \in {"-", "+"} THEN Tail(s) ELSE s
  IN IF x.nan \/ DigitPrefix(body) # body THEN BNNaN ELSE BNInt(x.v)

RECURSIVE NatToString(_)
NatToString(i) ==
  IF i < 10 THEN <<Digits[i + 1]>>
  ELSE Append(NatToString(i \div 10), Digits[(i % 10) + 1])

\* toString() / toFixed() of an integer value
IntToString(i) == IF i < 0 THEN <<"-">> \o NatToString(-i) ELSE NatToString(i)

\* what the user may type into the quantity field: integers around the range
\* of valid quantities, and text that is no integer
NonIntegerInputs ==
  {<<>>, <<"a">>, <<"-">>, <<"-", "0">>, <<"1", "a">>, <<"a", "1">>, <<"1", ".", "5">>}

Inputs ==
  NonIntegerInputs \cup {IntToString(i) : i \in (-MaxInputExcess)..(MaxCap + MaxInputExcess)}

(***************************************************************************)
(* getFullDisplayBalance(balance, decimals, displayDecimals): the amount   *)
(* divided by 10^decimals, then toFixed(displayDecimals) (round half up);  *)
(* full precision when displayDecimals is not given (-1 here).             *)
(***************************************************************************)
NoRounding == -1

RoundHalfUp(a, dp) ==
  IF a.k # "fin" THEN a
  ELSE LET scale == Pow10(dp)
           m == (2 * Abs(a.n) * scale + a.d) \div (2 * a.d)
       IN BNFrac(Sgn(a.n) * m, scale)

getFullDisplayBalance(balance, decimals, displayDecimals) ==
  LET amount == BNDiv(balance, BNInt(Pow10(decimals)))
  IN IF displayDecimals = NoRounding THEN amount ELSE RoundHalfUp(amount, displayDecimals)

(***************************************************************************)
(* State of the modal.                                                     *)
(***************************************************************************)
VARIABLES
  userCake,                      \* balance reported by useTokenBalance
  fetchStatus,                   \* status of the balance query
  priceTicketInCake,             \* round data
  discountDivisor,               \* round data
  maxNumberTicketsPerBuyOrClaim, \* round data: per-transaction cap
  ticketsToBuy,                  \* the quantity, a string
  discountValue,                 \* displayed discount
  totalCost,                     \* displayed cost after discount
  ticketCostBeforeDiscount,      \* displayed cost before discount
  buyingStage,                   \* "Buy" or "Edit"
  maxPossibleTicketPurchase,
  maxTicketPurchaseExceeded,
  userNotEnoughCake,
  tickets,                       \* ticket numbers held by the tickets reducer
  flowState,                     \* state of the approve/confirm flow
  modalOpen,                     \* FALSE once the modal is dismissed
  refreshCount,                  \* "refresh user tickets" notifications sent
  dismissCount,                  \* dismiss signals sent by onSuccess
  lastBuyCall,                   \* arguments of the buyTickets call in flight or confirmed
  allowanceThrew,                \* the allowance query failed, no approve succeeded since
  pending,                       \* calls to the contracts that are in flight, by name
  lastOp                         \* the handler that ran last

vars == <<userCake, fetchStatus, priceTicketInCake, discountDivisor,
          maxNumberTicketsPerBuyOrClaim, ticketsToBuy, discountValue, totalCost,
          ticketCostBeforeDiscount, buyingStage, maxPossibleTicketPurchase,
          maxTicketPurchaseExceeded, userNotEnoughCake, tickets, flowState,
          modalOpen, refreshCount, dismissCount, lastBuyCall, allowanceThrew, pending,
          lastOp>>

roundVars == <<priceTicketInCake, discountDivisor, maxNumberTicketsPerBuyOrClaim>>

balanceVars == <<userCake, fetchStatus>>

costVars == <<discountValue, totalCost, ticketCostBeforeDiscount>>

flowVars == <<flowState, modalOpen, refreshCount, dismissCount, lastBuyCall, allowanceThrew,
              pending>>

BUY == "Buy"

EDIT == "Edit"

FetchStatuses == {"NOT_FETCHED", "SUCCESS", "FAILED"}

hasFetchedBalance(status) == status = "SUCCESS"

(***************************************************************************)
(* The validator.                                                          *)
(***************************************************************************)
\* faulty variant: the clamp is skipped
limitNumberUnclamped(number, cap) == number

limitNumberByMaxTicketsPerBuy(number, cap) ==
  IF BNGt(number, BNInt(cap)) THEN BNInt(cap) ELSE number

\* maxBalancePurchase of getMaxPossiblePurchase
maxBalancePurchase(balance, price) == BNDiv(BNInt(balance), BNInt(price))

getMaxPossiblePurchase(balance, price, cap) ==
  limitNumberByMaxTicketsPerBuy(maxBalancePurchase(balance, price), cap)

\* the flag getMaxPossiblePurchase sets
notEnoughCakeAfterRecompute(status, balance, price, cap) ==
  hasFetchedBalance(status) /\ BNEq(getMaxPossiblePurchase(balance, price, cap), BIG_ZERO)

\* the effect of lines 108-126, run after a render that changed one of its inputs
MaxPurchaseEffect ==
  /\ maxPossibleTicketPurchase' =
       getMaxPossiblePurchase(userCake', priceTicketInCake', maxNumberTicketsPerBuyOrClaim')
  /\ userNotEnoughCake' =
       notEnoughCakeAfterRecompute(fetchStatus', userCake', priceTicketInCake',
                                   maxNumberTicketsPerBuyOrClaim')

(***************************************************************************)
(* The discount pricing effect.                                            *)
(***************************************************************************)
\* faulty variant: the quantity is added to the divisor instead of subtracted
getCostAfterDiscountAdded(price, divisor, n) ==
  BNDiv(BNTimes(BNTimes(BNInt(price), n),
                BNPlus(BNPlus(BNInt(divisor), BNInt(1)), n)),
        BNInt(divisor))

\* faulty variant: the sign of the discount term is flipped
getCostAfterDiscountSignFlipped(price, divisor, n) ==
  BNDiv(BNTimes(BNTimes(BNInt(price), n),
                BNPlus(BNMinus(BNInt(divisor), BNInt(1)), n)),
        BNInt(divisor))

getCostAfterDiscount(price, divisor, n) ==
  BNDiv(BNTimes(BNTimes(BNInt(price), n),
                BNMinus(BNPlus(BNInt(divisor), BNInt(1)), n)),
        BNInt(divisor))

costBeforeDiscount(price, n) == BNTimes(BNInt(price), n)

discountBeingApplied(price, divisor, n) ==
  BNMinus(costBeforeDiscount(price, n), getCostAfterDiscount(price, divisor, n))

displayedCostBeforeDiscount(price, n) ==
  IF BNGt(costBeforeDiscount(price, n), BIG_ZERO)
  THEN getFullDisplayBalance(costBeforeDiscount(price, n), TokenDecimals, NoRounding)
  ELSE BIG_ZERO

displayedTotalCost(price, divisor, n) ==
  IF BNGt(getCostAfterDiscount(price, divisor, n), BIG_ZERO)
  THEN getFullDisplayBalance(getCostAfterDiscount(price, divisor, n), TokenDecimals, NoRounding)
  ELSE BIG_ZERO

displayedDiscountValue(price, divisor, n) ==
  IF BNGt(discountBeingApplied(price, divisor, n), BIG_ZERO)
  THEN getFullDisplayBalance(discountBeingApplied(price, divisor, n), TokenDecimals,
                             DiscountDecimals)
  ELSE BIG_ZERO

\* the effect of lines 128-144
CostEffect ==
  LET n == BNOfString(ticketsToBuy')
  IN /\ ticketCostBeforeDiscount' = displayedCostBeforeDiscount(priceTicketInCake', n)
     /\ totalCost' = displayedTotalCost(priceTicketInCake', discountDivisor', n)
     /\ discountValue' = displayedDiscountValue(priceTicketInCake', discountDivisor', n)

\* the percentage shown next to the discount: computed from the two displayed
\* strings, 0 when the quotient is NaN or zero, else toFixed(2)
percentageDiscount ==
  LET percentageAsBn == BNTimes(BNDiv(discountValue, ticketCostBeforeDiscount), BNInt(100))
  IN IF BNIsNaN(percentageAsBn) \/ BNEq(percentageAsBn, BIG_ZERO)
     THEN BIG_ZERO
     ELSE RoundHalfUp(percentageAsBn, 2)

\* the bulk-discount table of the tooltip, in percent
TableQuantities == {2, 50, 100}

discountTable(n) ==
  CASE n = 2 -> BNFrac(5, 100)
    [] n = 50 -> BNFrac(245, 100)
    [] n = 100 -> BNFrac(495, 100)

(***************************************************************************)
(* The tickets reducer (useTicketsReducer) and the flow hook               *)
(* (useApproveConfirmTransaction), as the modal sees them.                 *)
(***************************************************************************)
\* the amount handed to useTicketsReducer: parseInt(ticketsToBuy, 10)
ticketsAmount(tb) == parseInt(tb)

\* ticket sets a (re)generation for `amount` may leave in the reducer:
\* the generation may be partial
GeneratedTickets(amount) ==
  LET want == IF amount.nan \/ amount.v < 0 THEN 0 ELSE amount.v
  IN {[i \in 1..len |-> 1] : len \in 0..want}

getTicketsForPurchase(ts) == ts

\* the reducer resets its tickets when the amount changes
TicketsReset ==
  IF ticketsAmount(ticketsToBuy') = ticketsAmount(ticketsToBuy)
  THEN tickets' = tickets
  ELSE tickets' \in GeneratedTickets(ticketsAmount(ticketsToBuy'))

FlowStates == {"Idle", "CheckingAllowance", "NeedsApproval", "Approving", "Approved",
               "Confirming", "Confirmed"}

isApproving(fs) == fs = "Approving"

isApproved(fs) == fs \in {"Approved", "Confirming", "Confirmed"}

isConfirming(fs) == fs = "Confirming"

isConfirmed(fs) == fs = "Confirmed"

\* faulty variant: the ticket count is not compared with the quantity
disableBuyingNoCountCheck(fs, notEnough, tb, ts) ==
  \/ ~isApproved(fs)
  \/ isConfirmed(fs)
  \/ notEnough
  \/ tb = <<>>
  \/ BNLte(BNOfString(tb), BIG_ZERO)

\* faulty variant: the insufficient-balance flag is not consulted
disableBuyingNoBalanceCheck(fs, notEnough, tb, ts) ==
  \/ ~isApproved(fs)
  \/ isConfirmed(fs)
  \/ tb = <<>>
  \/ BNLte(BNOfString(tb), BIG_ZERO)
  \/ parseInt(tb).nan
  \/ Len(getTicketsForPurchase(ts)) # parseInt(tb).v

\* faulty variant: the approval test is inverted
disableBuyingApprovalInverted(fs, notEnough, tb, ts) ==
  \/ isApproved(fs)
  \/ isConfirmed(fs)
  \/ notEnough
  \/ tb = <<>>
  \/ BNLte(BNOfString(tb), BIG_ZERO)
  \/ parseInt(tb).nan
  \/ Len(getTicketsForPurchase(ts)) # parseInt(tb).v

disableBuyingOf(fs, notEnough, tb, ts) ==
  \/ ~isApproved(fs)
  \/ isConfirmed(fs)
  \/ notEnough
  \/ tb = <<>>
  \/ BNLte(BNOfString(tb), BIG_ZERO)
  \/ parseInt(tb).nan
  \/ Len(getTicketsForPurchase(ts)) # parseInt(tb).v

disableBuying == disableBuyingOf(flowState, userNotEnoughCake, ticketsToBuy, tickets)

(***************************************************************************)
(* Shortcut buttons.                                                       *)
(***************************************************************************)
getNumTicketsByPercentage(maxPossible, percentage) ==
  LET percentageOfMaxTickets ==
        IF BNGt(maxPossible, BIG_ZERO)
        THEN BNTimes(BNDiv(maxPossible, BNInt(100)), BNInt(percentage))
        ELSE BIG_ZERO
  IN BNFloor(percentageOfMaxTickets)

\* faulty variant: the count of the button is not looked at
shortcutDisabledUnfetchedOnly(status, maxPossible, percentage) ==
  ~hasFetchedBalance(status)

shortcutDisabled(status, maxPossible, percentage) ==
  ~hasFetchedBalance(status) \/ getNumTicketsByPercentage(maxPossible, percentage) < 1

(***************************************************************************)
(* Initial state: the modal just mounted, its effects have run once.       *)
(***************************************************************************)
NoCall == [qty |-> NotANumber, count |-> 0, made |-> FALSE]

NoPending == [allowance |-> 0, approve |-> 0, buyTickets |-> 0]

\* a call goes out / its answer arrives
Submitted(call) == pending' = [pending EXCEPT ![call] = @ + 1]

Settled(call) == pending' = [pending EXCEPT ![call] = @ - 1]

\* the handler that ran last, with the text it was given
Op(name) == [op |-> name, input |-> <<>>]

OpInput(input) == [op |-> "handleInputChange", input |-> input]

InitWith(prices, divisors, caps) ==
  /\ userCake = 0
  /\ fetchStatus = "NOT_FETCHED"
  /\ priceTicketInCake \in prices
  /\ discountDivisor \in divisors
  /\ maxNumberTicketsPerBuyOrClaim \in caps
  /\ ticketsToBuy = <<"0">>
  /\ buyingStage = BUY
  /\ maxTicketPurchaseExceeded = FALSE
  /\ maxPossibleTicketPurchase =
       getMaxPossiblePurchase(userCake, priceTicketInCake, maxNumberTicketsPerBuyOrClaim)
  /\ userNotEnoughCake =
       notEnoughCakeAfterRecompute(fetchStatus, userCake, priceTicketInCake,
                                   maxNumberTicketsPerBuyOrClaim)
  /\ ticketCostBeforeDiscount =
       displayedCostBeforeDiscount(priceTicketInCake, BNOfString(ticketsToBuy))
  /\ totalCost = displayedTotalCost(priceTicketInCake, discountDivisor, BNOfString(ticketsToBuy))
  /\ discountValue =
       displayedDiscountValue(priceTicketInCake, discountDivisor, BNOfString(ticketsToBuy))
  /\ tickets = <<>>
  /\ flowState = "Idle"
  /\ modalOpen = TRUE
  /\ refreshCount = 0
  /\ dismissCount = 0
  /\ lastBuyCall = NoCall
  /\ allowanceThrew = FALSE
  /\ pending = NoPending
  /\ lastOp = Op("init")

Init == InitWith(Prices, Divisors, Caps)

(***************************************************************************)
(* Updates of the externally owned inputs; each one re-renders the modal   *)
(* and runs the effects whose inputs changed.                              *)
(***************************************************************************)
BalanceUpdate(b) ==
  /\ modalOpen
  /\ b # userCake \/ fetchStatus # "SUCCESS"
  /\ userCake' = b
  /\ fetchStatus' = "SUCCESS"
  /\ UNCHANGED roundVars
  /\ MaxPurchaseEffect
  /\ lastOp' = Op("getMaxPossiblePurchase")
  /\ UNCHANGED <<ticketsToBuy, costVars, buyingStage, maxTicketPurchaseExceeded, tickets,
                 flowVars>>

BalanceFetchFailed ==
  /\ modalOpen
  /\ fetchStatus # "FAILED"
  /\ fetchStatus' = "FAILED"
  /\ UNCHANGED <<userCake, roundVars>>
  /\ IF hasFetchedBalance(fetchStatus)
     THEN MaxPurchaseEffect /\ lastOp' = Op("getMaxPossiblePurchase")
     ELSE UNCHANGED <<maxPossibleTicketPurchase, userNotEnoughCake>> /\ lastOp' = Op("render")
  /\ UNCHANGED <<ticketsToBuy, costVars, buyingStage, maxTicketPurchaseExceeded, tickets,
                 flowVars>>

PriceUpdate(p) ==
  /\ modalOpen
  /\ p # priceTicketInCake
  /\ priceTicketInCake' = p
  /\ UNCHANGED <<discountDivisor, maxNumberTicketsPerBuyOrClaim, balanceVars, ticketsToBuy>>
  /\ MaxPurchaseEffect
  /\ CostEffect
  /\ lastOp' = Op("getMaxPossiblePurchase")
  /\ UNCHANGED <<buyingStage, maxTicketPurchaseExceeded, tickets, flowVars>>

CapUpdate(c) ==
  /\ modalOpen
  /\ c # maxNumberTicketsPerBuyOrClaim
  /\ maxNumberTicketsPerBuyOrClaim' = c
  /\ UNCHANGED <<priceTicketInCake, discountDivisor, balanceVars>>
  /\ MaxPurchaseEffect
  /\ lastOp' = Op("getMaxPossiblePurchase")
  /\ UNCHANGED <<ticketsToBuy, costVars, buyingStage, maxTicketPurchaseExceeded, tickets,
                 flowVars>>

DivisorUpdate(d) ==
  /\ modalOpen
  /\ d # discountDivisor
  /\ discountDivisor' = d
  /\ UNCHANGED <<priceTicketInCake, maxNumberTicketsPerBuyOrClaim, balanceVars, ticketsToBuy>>
  /\ CostEffect
  /\ lastOp' = Op("getCostAfterDiscount")
  /\ UNCHANGED <<buyingStage, maxPossibleTicketPurchase, maxTicketPurchaseExceeded,
                 userNotEnoughCake, tickets, flowVars>>

(***************************************************************************)
(* Quantity handlers of the Buy stage.                                     *)
(***************************************************************************)
getCakeValueOfTickets(price, numberOfTickets) == BNTimes(BNInt(price), numberOfTickets)

\* the string handleInputChange stores
ticketsToBuyAfterInput(input, cap) ==
  LET inputAsInt == parseInt(input)
      limitedNumberTickets == limitNumberByMaxTicketsPerBuy(BNOfNumber(inputAsInt), cap)
  IN IF ~inputAsInt.nan /\ inputAsInt.v # 0
     THEN IntToString(limitedNumberTickets.n)
     ELSE <<"0">>

handleInputChange(input) ==
  LET inputAsInt == parseInt(input)
      inputAsBN == BNOfNumber(inputAsInt)
      limitedNumberTickets ==
        limitNumberByMaxTicketsPerBuy(inputAsBN, maxNumberTicketsPerBuyOrClaim)
      cakeValueOfInput == getCakeValueOfTickets(priceTicketInCake, limitedNumberTickets)
  IN /\ modalOpen
     /\ buyingStage = BUY
     /\ IF BNGt(cakeValueOfInput, BNInt(userCake))
        THEN userNotEnoughCake' = TRUE /\ UNCHANGED maxTicketPurchaseExceeded
        ELSE IF BNEq(limitedNumberTickets, maxPossibleTicketPurchase)
             THEN maxTicketPurchaseExceeded' = TRUE /\ UNCHANGED userNotEnoughCake
             ELSE userNotEnoughCake' = FALSE /\ maxTicketPurchaseExceeded' = FALSE
     /\ ticketsToBuy' = ticketsToBuyAfterInput(input, maxNumberTicketsPerBuyOrClaim)
     /\ UNCHANGED <<roundVars, balanceVars, maxPossibleTicketPurchase, buyingStage, flowVars>>
     /\ CostEffect
     /\ TicketsReset
     /\ lastOp' = OpInput(input)

handleNumberButtonClick(percentage) ==
  LET number == getNumTicketsByPercentage(maxPossibleTicketPurchase, percentage)
  IN /\ modalOpen
     /\ buyingStage = BUY
     /\ ~shortcutDisabled(fetchStatus, maxPossibleTicketPurchase, percentage)
     /\ ticketsToBuy' = IntToString(number)
     /\ userNotEnoughCake' = FALSE
     /\ maxTicketPurchaseExceeded' = FALSE
     /\ UNCHANGED <<roundVars, balanceVars, maxPossibleTicketPurchase, buyingStage, flowVars>>
     /\ CostEffect
     /\ TicketsReset
     /\ lastOp' = Op("handleNumberButtonClick")

(***************************************************************************)
(* The Edit stage: the tickets held by the reducer can be edited.          *)
(***************************************************************************)
EnterEditStage ==
  /\ modalOpen
  /\ buyingStage = BUY
  /\ ~(disableBuying \/ isConfirming(flowState))
  /\ buyingStage' = EDIT
  /\ lastOp' = Op("setBuyingStage")
  /\ UNCHANGED <<roundVars, balanceVars, ticketsToBuy, costVars, maxPossibleTicketPurchase,
                 maxTicketPurchaseExceeded, userNotEnoughCake, tickets, flowVars>>

LeaveEditStage ==
  /\ modalOpen
  /\ buyingStage = EDIT
  /\ buyingStage' = BUY
  /\ lastOp' = Op("setBuyingStage")
  /\ UNCHANGED <<roundVars, balanceVars, ticketsToBuy, costVars, maxPossibleTicketPurchase,
                 maxTicketPurchaseExceeded, userNotEnoughCake, tickets, flowVars>>

updateTicket(i, number) ==
  /\ modalOpen
  /\ buyingStage = EDIT
  /\ i \in 1..Len(tickets)
  /\ tickets[i] # number
  /\ tickets' = [tickets EXCEPT ![i] = number]
  /\ lastOp' = Op("updateTicket")
  /\ UNCHANGED <<roundVars, balanceVars, ticketsToBuy, costVars, buyingStage,
                 maxPossibleTicketPurchase, maxTicketPurchaseExceeded, userNotEnoughCake,
                 flowVars>>

randomize ==
  /\ modalOpen
  /\ buyingStage = EDIT
  /\ tickets' \in [1..Len(tickets) -> TicketNumbers]
  /\ tickets' # tickets
  /\ lastOp' = Op("randomize")
  /\ UNCHANGED <<roundVars, balanceVars, ticketsToBuy, costVars, buyingStage,
                 maxPossibleTicketPurchase, maxTicketPurchaseExceeded, userNotEnoughCake,
                 flowVars>>

(***************************************************************************)
(* The approve/confirm flow and the callbacks the modal gives it.          *)
(***************************************************************************)
AllowanceOutcomes == {"throws", "zero", "positive"}

\* faulty variant: a failed query counts as an allowance
onRequiresApprovalTrueOnThrow(outcome) ==
  IF outcome = "throws" THEN TRUE ELSE outcome = "positive"

\* the answer of the onRequiresApproval callback
onRequiresApproval(outcome) ==
  IF outcome = "throws" THEN FALSE ELSE outcome = "positive"

\* the arguments onConfirm passes to buyTickets
onConfirm(tb, ts) ==
  [qty |-> parseInt(tb), count |-> Len(getTicketsForPurchase(ts)), made |-> TRUE]

uiUnchanged ==
  UNCHANGED <<roundVars, balanceVars, ticketsToBuy, costVars, buyingStage,
              maxPossibleTicketPurchase, maxTicketPurchaseExceeded, userNotEnoughCake,
              tickets>>

StartAllowanceCheck ==
  /\ modalOpen
  /\ flowState = "Idle"
  /\ flowState' = "CheckingAllowance"
  /\ Submitted("allowance")
  /\ lastOp' = Op("allowance")
  /\ uiUnchanged
  /\ UNCHANGED <<modalOpen, refreshCount, dismissCount, lastBuyCall, allowanceThrew>>

AllowanceResult(outcome) ==
  /\ modalOpen
  /\ flowState = "CheckingAllowance"
  /\ flowState' = IF onRequiresApproval(outcome) THEN "Approved" ELSE "NeedsApproval"
  /\ allowanceThrew' = (outcome = "throws")
  /\ Settled("allowance")
  /\ lastOp' = Op("onRequiresApproval")
  /\ uiUnchanged
  /\ UNCHANGED <<modalOpen, refreshCount, dismissCount, lastBuyCall>>

approveEnabled ==
  /\ modalOpen
  /\ buyingStage = BUY
  /\ ~isApproved(flowState)
  /\ ~isApproving(flowState)
  /\ flowState = "NeedsApproval"

handleApprove ==
  /\ approveEnabled
  /\ flowState' = "Approving"
  /\ Submitted("approve")
  /\ lastOp' = Op("handleApprove")
  /\ uiUnchanged
  /\ UNCHANGED <<modalOpen, refreshCount, dismissCount, lastBuyCall, allowanceThrew>>

ApproveSucceeded ==
  /\ modalOpen
  /\ flowState = "Approving"
  /\ flowState' = "Approved"
  /\ allowanceThrew' = FALSE
  /\ Settled("approve")
  /\ lastOp' = Op("onApproveSuccess")
  /\ uiUnchanged
  /\ UNCHANGED <<modalOpen, refreshCount, dismissCount, lastBuyCall>>

ApproveFailed ==
  /\ modalOpen
  /\ flowState = "Approving"
  /\ flowState' = "NeedsApproval"
  /\ Settled("approve")
  /\ lastOp' = Op("approveFailed")
  /\ uiUnchanged
  /\ UNCHANGED <<modalOpen, refreshCount, dismissCount, lastBuyCall, allowanceThrew>>

\* the "Buy Instantly" button of the Buy stage
buyInstantlyEnabled ==
  /\ modalOpen
  /\ buyingStage = BUY
  /\ ~disableBuying
  /\ ~isConfirming(flowState)

\* faulty variant: the Edit stage does not look at isConfirming
editConfirmEnabledWhileConfirming ==
  /\ modalOpen
  /\ buyingStage = EDIT

\* the confirm button of the Edit stage
editConfirmEnabled ==
  /\ modalOpen
  /\ buyingStage = EDIT
  /\ ~isConfirming(flowState)

handleConfirm ==
  /\ buyInstantlyEnabled \/ editConfirmEnabled
  /\ flowState' = "Confirming"
  /\ lastBuyCall' = onConfirm(ticketsToBuy, tickets)
  /\ Submitted("buyTickets")
  /\ lastOp' = Op("handleConfirm")
  /\ uiUnchanged
  /\ UNCHANGED <<modalOpen, refreshCount, dismissCount, allowanceThrew>>

\* faulty variant: the tickets are not asked for again
onSuccessNoRefresh ==
  /\ dismissCount' = dismissCount + 1
  /\ modalOpen' = FALSE
  /\ refreshCount' = refreshCount

\* the onSuccess callback: dismiss the modal, ask for the user's tickets again
onSuccess ==
  /\ dismissCount' = dismissCount + 1
  /\ modalOpen' = FALSE
  /\ refreshCount' = refreshCount + 1

\* buyTickets succeeded: the flow is confirmed and onSuccess runs
ConfirmSucceeded ==
  /\ modalOpen
  /\ flowState = "Confirming"
  /\ flowState' = "Confirmed"
  /\ onSuccess
  /\ Settled("buyTickets")
  /\ lastOp' = Op("onSuccess")
  /\ uiUnchanged
  /\ UNCHANGED <<lastBuyCall, allowanceThrew>>

ConfirmFailed ==
  /\ modalOpen
  /\ flowState = "Confirming"
  /\ flowState' = "Approved"
  /\ lastBuyCall' = NoCall
  /\ Settled("buyTickets")
  /\ lastOp' = Op("confirmFailed")
  /\ uiUnchanged
  /\ UNCHANGED <<modalOpen, refreshCount, dismissCount, allowanceThrew>>

\* the user closes the modal
UserDismiss ==
  /\ modalOpen
  /\ buyingStage = BUY
  /\ modalOpen' = FALSE
  /\ lastOp' = Op("userDismiss")
  /\ uiUnchanged
  /\ UNCHANGED <<flowState, refreshCount, dismissCount, lastBuyCall, allowanceThrew, pending>>

\* operations of the purchase-quantity validator and of the pricing effect
NextValidator ==
  \/ \E b \in Balances : BalanceUpdate(b)
  \/ BalanceFetchFailed
  \/ \E p \in Prices : PriceUpdate(p)
  \/ \E c \in Caps : CapUpdate(c)
  \/ \E d \in Divisors : DivisorUpdate(d)
  \/ \E input \in Inputs : handleInputChange(input)
  \/ \E percentage \in Percentages : handleNumberButtonClick(percentage)

\* operations of the purchase flow: stages, tickets, approve and confirm
NextFlow ==
  \/ EnterEditStage
  \/ LeaveEditStage
  \/ \E i \in 1..MaxCap, number \in TicketNumbers : updateTicket(i, number)
  \/ randomize
  \/ StartAllowanceCheck
  \/ \E outcome \in AllowanceOutcomes : AllowanceResult(outcome)
  \/ handleApprove
  \/ ApproveSucceeded
  \/ ApproveFailed
  \/ handleConfirm
  \/ ConfirmSucceeded
  \/ ConfirmFailed
  \/ UserDismiss

Next == NextValidator \/ NextFlow

Spec == Init /\ [][Next]_vars

\* the validator alone: the flow stays where it starts
SpecValidator == Init /\ [][NextValidator]_vars

\* the purchase flow within one round: the round data stay as first loaded
\* (one ticket costs one unit), the balance and the quantity change
InitFlow == InitWith({1}, Divisors, {MaxCap})

NextPurchase ==
  \/ \E b \in Balances : BalanceUpdate(b)
  \/ \E input \in Inputs : handleInputChange(input)
  \/ \E percentage \in Percentages : handleNumberButtonClick(percentage)
  \/ NextFlow

SpecFlow == InitFlow /\ [][NextPurchase]_vars

\* the pricing effect over a wider range of quantities, prices and divisors
PricingInputs == {IntToString(i) : i \in 0..MaxPricingTickets}

InitPricing ==
  InitWith(0..MaxPricingPrice, 0..MaxPricingDivisor, {MaxPricingTickets})

NextPricing ==
  \/ \E p \in 0..MaxPricingPrice : PriceUpdate(p)
  \/ \E d \in 0..MaxPricingDivisor : DivisorUpdate(d)
  \/ \E input \in PricingInputs : handleInputChange(input)

SpecPricing == InitPricing /\ [][NextPricing]_vars

\* the quantities of the bulk-discount table, at the divisor the table is
\* written for, over a range of ticket prices
TableDivisor == 2000

TableInputs == {IntToString(n) : n \in TableQuantities}

InitTable == InitWith(1..MaxTablePrice, {TableDivisor}, {100})

NextTable ==
  \/ \E p \in 1..MaxTablePrice : PriceUpdate(p)
  \/ \E input \in TableInputs : handleInputChange(input)

SpecTable == InitTable /\ [][NextTable]_vars

TypeOK ==
  /\ userCake \in Nat
  /\ fetchStatus \in FetchStatuses
  /\ priceTicketInCake \in Nat
  /\ discountDivisor \in Nat
  /\ maxNumberTicketsPerBuyOrClaim \in Nat
  /\ buyingStage \in {BUY, EDIT}
  /\ flowState \in FlowStates
  /\ maxTicketPurchaseExceeded \in BOOLEAN
  /\ userNotEnoughCake \in BOOLEAN
  /\ modalOpen \in BOOLEAN

(***************************************************************************)
(* Properties.                                                             *)
(***************************************************************************)
\* the requested quantity as a number
requestedQuantity == parseInt(ticketsToBuy)

\* min(floor(balance / price), cap)
floorMinPurchase == Min(userCake \div priceTicketInCake, maxNumberTicketsPerBuyOrClaim)

afterRecompute == lastOp.op = "getMaxPossiblePurchase"

\* C1: after the max-purchase recomputation, with a price > 0, the stored
\* maxPossibleTicketPurchase is the integer min(floor(balance / price), cap).
C1_MaxPurchaseIsFloorMin ==
  (afterRecompute /\ priceTicketInCake > 0) =>
    maxPossibleTicketPurchase = BNInt(floorMinPurchase)

\* C2: right after the recomputation, with a price > 0, the insufficient-balance
\* flag is true exactly when the balance is fetched and
\* min(floor(balance / price), cap) is 0.
C2_FlagIffNoWholeTicket ==
  (afterRecompute /\ priceTicketInCake > 0) =>
    (userNotEnoughCake <=> (hasFetchedBalance(fetchStatus) /\ floorMinPurchase = 0))

\* C5: the requested quantity is always a non-negative integer that is at
\* most maxNumberTicketsPerBuyOrClaim.
C5_QuantityWithinCap ==
  /\ ~requestedQuantity.nan
  /\ requestedQuantity.v >= 0
  /\ requestedQuantity.v <= maxNumberTicketsPerBuyOrClaim

\* the latest step handled a raw quantity above the cap
rawInputAboveCap ==
  /\ lastOp.op = "handleInputChange"
  /\ ~parseInt(lastOp.input).nan
  /\ parseInt(lastOp.input).v > maxNumberTicketsPerBuyOrClaim

\* C6 as stated: a raw quantity above the cap leaves the quantity at the cap
\* and the cap-exceeded flag true, whatever the balance and the price.
C6_CapExceededAlways ==
  rawInputAboveCap =>
    /\ ticketsToBuy = IntToString(maxNumberTicketsPerBuyOrClaim)
    /\ maxTicketPurchaseExceeded

capQuantityAffordable ==
  priceTicketInCake * maxNumberTicketsPerBuyOrClaim <= userCake

\* C6 amended: a raw quantity above the cap leaves the quantity at the cap;
\* the cap-exceeded flag is true when the price is > 0 and the balance pays
\* for cap tickets, and otherwise the insufficient-balance flag is true.
C6_CapExceededWhenAffordable ==
  rawInputAboveCap =>
    /\ ticketsToBuy = IntToString(maxNumberTicketsPerBuyOrClaim)
    /\ (priceTicketInCake > 0 /\ capQuantityAffordable) => maxTicketPurchaseExceeded
    /\ ~capQuantityAffordable => userNotEnoughCake

C6_Witness ==
  /\ rawInputAboveCap
  /\ priceTicketInCake > 0
  /\ maxNumberTicketsPerBuyOrClaim > 0
  /\ capQuantityAffordable
  /\ maxTicketPurchaseExceeded
  /\ ticketsToBuy = IntToString(maxNumberTicketsPerBuyOrClaim)

\* C7: for a quantity >= 0, a price >= 0 and a divisor > 0, the displayed
\* cost after discount is at most the displayed cost before discount, and
\* neither is negative.
C7_DiscountedCostBounded ==
  (~requestedQuantity.nan /\ requestedQuantity.v >= 0 /\ discountDivisor > 0) =>
    /\ BNLte(totalCost, ticketCostBeforeDiscount)
    /\ BNLte(BIG_ZERO, totalCost)
    /\ BNLte(BIG_ZERO, ticketCostBeforeDiscount)

\* a quantity large enough for the raw discounted cost to be negative
C7_Witness ==
  /\ discountDivisor > 0
  /\ priceTicketInCake > 0
  /\ ~requestedQuantity.nan
  /\ requestedQuantity.v > discountDivisor + 1
  /\ totalCost = BIG_ZERO
  /\ BNGt(ticketCostBeforeDiscount, BIG_ZERO)

\* the ticket numbers the reducer would hand over differ in number from the
\* requested quantity
ticketSetMismatch ==
  requestedQuantity.nan \/ Len(getTicketsForPurchase(tickets)) # requestedQuantity.v

\* C3: "Buy Instantly" is enabled only if approval is granted, the flow is
\* not confirmed, the insufficient-balance flag is false, the quantity is a
\* positive integer and the reducer holds exactly that many ticket numbers.
C3_BuyEnabledOnlyIfPermitted ==
  buyInstantlyEnabled =>
    /\ flowState \in {"Approved", "Confirming", "Confirmed"}
    /\ flowState # "Confirmed"
    /\ ~userNotEnoughCake
    /\ ~requestedQuantity.nan
    /\ requestedQuantity.v > 0
    /\ Len(tickets) = requestedQuantity.v

C3_Witness ==
  /\ buyInstantlyEnabled
  /\ requestedQuantity.v = 2
  /\ Len(tickets) = 2

\* C4: buyTickets is never called with a list whose length differs from the
\* requested quantity, and while the lengths differ no purchase action is
\* enabled.
C4_NoMismatchedSubmission ==
  /\ lastBuyCall.made => (~lastBuyCall.qty.nan /\ lastBuyCall.count = lastBuyCall.qty.v)
  /\ ticketSetMismatch => (~buyInstantlyEnabled /\ ~editConfirmEnabled)

\* only the mismatch keeps the purchase disabled
C4_Witness ==
  /\ modalOpen
  /\ buyingStage = BUY
  /\ flowState = "Approved"
  /\ lastOp.op = "confirmFailed"
  /\ ~userNotEnoughCake
  /\ requestedQuantity.v = 2
  /\ Len(tickets) = 1

\* C8: when the allowance query throws, the flow enters NeedsApproval, and
\* until an approve succeeds it is not approved and no purchase is enabled.
C8_AllowanceFailureNeedsApproval ==
  /\ (lastOp.op = "onRequiresApproval" /\ allowanceThrew) => flowState = "NeedsApproval"
  /\ allowanceThrew =>
       /\ ~isApproved(flowState)
       /\ ~buyInstantlyEnabled
       /\ ~editConfirmEnabled

C8_Witness ==
  /\ allowanceThrew
  /\ lastOp.op = "approveFailed"
  /\ ~userNotEnoughCake
  /\ requestedQuantity.v > 0
  /\ ~ticketSetMismatch

\* C9: a confirmed flow has sent exactly one refresh notification and one
\* dismiss signal; a flow that is not confirmed has sent none.
C9_OneRefreshOneDismiss ==
  /\ flowState = "Confirmed" => (refreshCount = 1 /\ dismissCount = 1)
  /\ flowState # "Confirmed" => (refreshCount = 0 /\ dismissCount = 0)

C9_Witness ==
  /\ flowState = "Confirmed"
  /\ lastOp.op = "onSuccess"
  /\ lastBuyCall.made
  /\ refreshCount = 1
  /\ dismissCount = 1

\* the purchase conditions the validator and the reducer contribute
quantityPermitted ==
  /\ ~userNotEnoughCake
  /\ ~requestedQuantity.nan
  /\ requestedQuantity.v > 0
  /\ ~ticketSetMismatch

\* C10: a failed approve leaves the flow in NeedsApproval with approve
\* enabled again; a failed buyTickets leaves it in Approved with no call in
\* flight and the purchase enabled again (as far as the quantity permits).
C10_FailureReturnsToActionable ==
  /\ lastOp.op = "approveFailed" =>
       /\ flowState = "NeedsApproval"
       /\ approveEnabled
  /\ lastOp.op = "confirmFailed" =>
       /\ flowState = "Approved"
       /\ ~lastBuyCall.made
       /\ buyingStage = EDIT => editConfirmEnabled
       /\ (buyingStage = BUY /\ quantityPermitted) => buyInstantlyEnabled

C10_Witness ==
  /\ lastOp.op = "confirmFailed"
  /\ buyingStage = BUY
  /\ quantityPermitted
  /\ buyInstantlyEnabled

pendingCalls == pending.allowance + pending.approve + pending.buyTickets

C12_ZeroDivisorShowsZeroAndDisables ==
  discountDivisor = 0 =>
    /\ ticketCostBeforeDiscount = BIG_ZERO
    /\ discountValue = BIG_ZERO
    /\ totalCost = BIG_ZERO
    /\ ~buyInstantlyEnabled
    /\ ~editConfirmEnabled

\* floor(maxPossiblePurchase * pct / 100)
shortcutCount(pct) ==
  BNFloor(BNDiv(BNTimes(maxPossibleTicketPurchase, BNInt(pct)), BNInt(100)))

shortcutEnabled(pct) ==
  ~shortcutDisabled(fetchStatus, maxPossibleTicketPurchase, pct)

\* C13: a shortcut button is enabled only when the balance is fetched and
\* floor(maxPossiblePurchase * pct / 100) >= 1, and right after a shortcut
\* click the requested quantity is a number >= 1.
C13_ShortcutNeverBelowOne ==
  /\ \A pct \in Percentages :
       shortcutEnabled(pct) =>
         /\ hasFetchedBalance(fetchStatus)
         /\ maxPossibleTicketPurchase.k = "fin"
         /\ shortcutCount(pct) >= 1
  /\ lastOp.op = "handleNumberButtonClick" =>
       /\ ~requestedQuantity.nan
       /\ requestedQuantity.v >= 1

\* a shortcut was clicked while another shortcut button was disabled
C13_Witness ==
  /\ lastOp.op = "handleNumberButtonClick"
  /\ requestedQuantity.v >= 1
  /\ \E pct \in Percentages : shortcutEnabled(pct)
  /\ \E pct \in Percentages :
       hasFetchedBalance(fetchStatus) /\ ~shortcutEnabled(pct)

\* C14: at discountDivisor = 2000 the displayed discount percentage is the one
\* of the bulk-discount table (2 tickets 0.05%, 50 tickets 2.45%, 100 tickets
\* 4.95%), whatever the ticket price.
C14_PercentageMatchesTable ==
  (/\ discountDivisor = TableDivisor
   /\ priceTicketInCake > 0
   /\ ~requestedQuantity.nan
   /\ requestedQuantity.v \in TableQuantities) =>
    percentageDiscount = discountTable(requestedQuantity.v)

\* price per ticket after discount when n tickets are bought
effectivePrice(n) ==
  BNDiv(getCostAfterDiscount(priceTicketInCake, discountDivisor, BNInt(n)), BNInt(n))

\* the same, from the total the modal displays for the requested quantity
displayedEffectivePrice ==
  BNDiv(BNTimes(totalCost, BNInt(Pow10(TokenDecimals))), BNInt(requestedQuantity.v))

quantityWithinDivisor ==
  /\ ~requestedQuantity.nan
  /\ requestedQuantity.v >= 1
  /\ requestedQuantity.v <= discountDivisor

\* C15: for 1 <= n1 < n2 <= discountDivisor the price per ticket after
\* discount for n2 tickets is at most the one for n1 tickets.
C15_EffectivePriceMonotone ==
  quantityWithinDivisor =>
    \A n1 \in 1..(requestedQuantity.v - 1) :
      BNLte(displayedEffectivePrice, effectivePrice(n1))

\* three tickets at a divisor of at least three are cheaper per ticket than one
C15_Witness ==
  /\ lastOp.op = "handleInputChange"
  /\ quantityWithinDivisor
  /\ requestedQuantity.v >= 3
  /\ priceTicketInCake > 0
  /\ BNGt(effectivePrice(1), displayedEffectivePrice)

\* price x requested quantity exceeds the balance
quantityUnaffordable ==
  BNGt(getCakeValueOfTickets(priceTicketInCake, BNOfString(ticketsToBuy)), BNInt(userCake))

\* C16: the purchase is never enabled while price x requested quantity
\* exceeds the current balance.
C16_NeverEnabledWhenUnaffordable ==
  buyInstantlyEnabled => ~quantityUnaffordable

afterInput == lastOp.op = "handleInputChange"

\* the balance pays for at least one ticket and one ticket may be bought
oneTicketAffordable ==
  /\ priceTicketInCake > 0
  /\ priceTicketInCake <= userCake
  /\ maxNumberTicketsPerBuyOrClaim >= 1

\* C17: right after a quantity input, if the stored quantity is affordable and
\* at least one ticket is affordable the insufficient-balance flag is false,
\* and if the input costs more than the balance the cap-exceeded flag is false.
C17_FlagsReflectLatestInput ==
  afterInput =>
    /\ (~quantityUnaffordable /\ oneTicketAffordable) => ~userNotEnoughCake
    /\ BNGt(getCakeValueOfTickets(priceTicketInCake,
                                  limitNumberByMaxTicketsPerBuy(
                                    BNOfNumber(parseInt(lastOp.input)),
                                    maxNumberTicketsPerBuyOrClaim)),
            BNInt(userCake)) => ~maxTicketPurchaseExceeded

\* C18: in the Edit stage buyTickets can be submitted only while the
\* purchase-permitted condition holds.
C18_EditConfirmOnlyIfPermitted ==
  editConfirmEnabled => ~disableBuying

\* C19: for a quantity n >= 0, a price >= 0 and a divisor > 0 the displayed
\* discount plus the displayed total is the displayed cost before discount.
C19_DisplayedFiguresAddUp ==
  (/\ discountDivisor > 0
   /\ ~requestedQuantity.nan
   /\ requestedQuantity.v >= 0) =>
    /\ BNPlus(discountValue, totalCost) = ticketCostBeforeDiscount
    /\ BNLte(discountValue, ticketCostBeforeDiscount)

====
